---- MODULE Spec2Model ----
(***************************************************************************)
(* A model of scripts/scrape.py: the availability scraper of the Mike Ball *)
(* dive expedition feed.                                                   *)
(*                                                                         *)
(* Texts are sequences of atoms.  An atom is one character (a digit, a     *)
(* punctuation mark, a whitespace character) or one maximal run of letters *)
(* (a word); two word atoms are never adjacent in a text.  Dates are       *)
(* proleptic Gregorian ordinals, as datetime.date.toordinal() gives them.  *)
(***************************************************************************)
EXTENDS Integers, Sequences, FiniteSets, TLC

VARIABLES
  pc,          \* position of the running operation
  dom,         \* the top-level rows of the results table of the page
  start_date,  \* extract_from_results / run_scrape: window start
  end_date,    \* extract_from_results / run_scrape: window end
  i,           \* extract_from_results: the scan index
  trips,       \* extract_from_results: the trips collected so far
  visited,     \* history: the row indexes evaluated as trip candidates
  skipped,     \* history: the row indexes consumed as cabin-detail rows
  args,        \* main: the parsed command line
  today,       \* main: date.today()
  outfile,     \* main: the document at args.out, or NoFile
  text,        \* parse_money_to_int: the argument
  value        \* parse_money_to_int: the result

vars == <<pc, dom, start_date, end_date, i, trips, visited, skipped,
          args, today, outfile, text, value>>

\* Python's None where an int or a date is expected (all of them are >= 0).
Null == -1

(***************************************************************************)
(* Characters and words                                                    *)
(***************************************************************************)
Digits == {"0", "1", "2", "3", "4", "5", "6", "7", "8", "9"}

DigitVal(a) ==
  CASE a = "0" -> 0 [] a = "1" -> 1 [] a = "2" -> 2 [] a = "3" -> 3
    [] a = "4" -> 4 [] a = "5" -> 5 [] a = "6" -> 6 [] a = "7" -> 7
    [] a = "8" -> 8 [] a = "9" -> 9

IsSpace(a) == a \in {" ", "\t", "\n"}

\* str.lower() on the word atoms the model uses; every other atom has no
\* upper-case letter.
lowerTable ==
  ("Mon" :> "mon") @@ ("Fri" :> "fri") @@ ("FRI" :> "fri") @@
  ("Friday" :> "friday") @@
  ("Sep" :> "sep") @@ ("SEP" :> "sep") @@ ("September" :> "september") @@
  ("Oct" :> "oct") @@ ("Feb" :> "feb") @@ ("May" :> "may") @@
  ("Sold" :> "sold") @@ ("SOLD" :> "sold") @@ ("Out" :> "out") @@
  ("OUT" :> "out") @@ ("Hurry" :> "hurry") @@ ("Available" :> "available") @@
  ("Cabin" :> "cabin") @@ ("CABIN" :> "cabin") @@ ("Type" :> "type") @@
  ("TYPE" :> "type") @@ ("Berths" :> "berths") @@ ("Left" :> "left") @@
  ("Price" :> "price") @@ ("Premium" :> "premium") @@
  ("Standard" :> "standard") @@ ("Budget" :> "budget") @@
  ("Coral" :> "coral") @@ ("Cod" :> "cod") @@ ("AUD" :> "aud") @@
  ("TBA" :> "tba")

Lower(a) == IF a \in DOMAIN lowerTable THEN lowerTable[a] ELSE a

LowerText(t) == [k \in 1..Len(t) |-> Lower(t[k])]

RECURSIVE LStrip(_)
LStrip(t) ==
  IF t # <<>> /\ IsSpace(Head(t)) THEN LStrip(Tail(t)) ELSE t

RECURSIVE RStrip(_)
RStrip(t) ==
  IF t # <<>> /\ IsSpace(t[Len(t)]) THEN RStrip(SubSeq(t, 1, Len(t) - 1)) ELSE t

\* str.strip()
Strip(t) == RStrip(LStrip(t))

\* The lower-case words that hold the lower-case word p as a substring.
WordsHolding(p) ==
  CASE p = "sold" -> {"sold", "unsold"}
    [] p = "avail" -> {"avail", "available", "unavailable"}
    [] OTHER -> {p}

\* `p in t` for a pattern p of lower-case atoms: a one-word pattern may sit
\* inside a longer word, any other pattern is matched atom by atom.
Contains(t, p) ==
  IF Len(p) = 1
    THEN \E k \in 1..Len(t) : t[k] \in WordsHolding(p[1])
    ELSE \E k \in 0..(Len(t) - Len(p)) :
           \A j \in 1..Len(p) : t[k + j] = p[j]

\* The value of a run of digit atoms, read in base 10.
RECURSIVE DigitsValue(_)
DigitsValue(w) ==
  IF w = <<>> THEN 0
  ELSE 10 * DigitsValue(SubSeq(w, 1, Len(w) - 1)) + DigitVal(w[Len(w)])

AllDigits(w) == \A k \in 1..Len(w) : w[k] \in Digits

RECURSIVE Pow10(_)
Pow10(n) == IF n = 0 THEN 1 ELSE 10 * Pow10(n - 1)

(***************************************************************************)
(* parse_money_to_int                                                      *)
(***************************************************************************)
\* re.sub(r"[^\d.]", "", s)
DigitsAndDots(s) ==
  LET keep(a) == a \in Digits \/ a = "." IN SelectSeq(s, keep)

\* float(v) for a text of digits and dots: <<whole digits, fraction digits>>,
\* or <<>> where float raises ValueError.
FloatParts(v) ==
  LET dots == {k \in 1..Len(v) : v[k] = "."} IN
  IF Cardinality(dots) > 1 \/ Cardinality(dots) = Len(v) THEN <<>>
  ELSE IF dots = {} THEN <<v, <<>>>>
  ELSE LET d == CHOOSE k \in dots : TRUE IN
       <<SubSeq(v, 1, d - 1), SubSeq(v, d + 1, Len(v))>>

\* int(round(x)) for x = whole + frac / 10^n: round-half-to-even.
RoundHalfEven(whole, frac, n) ==
  IF 2 * frac > Pow10(n) THEN whole + 1
  ELSE IF 2 * frac = Pow10(n) THEN whole + (whole % 2)
  ELSE whole

parse_money_to_int(s) ==
  IF s = <<>> THEN Null
  ELSE LET v == DigitsAndDots(s) IN
    IF v = <<>> THEN Null
    ELSE LET p == FloatParts(v) IN
      IF p = <<>> THEN Null
      ELSE RoundHalfEven(DigitsValue(p[1]), DigitsValue(p[2]), Len(p[2]))

(***************************************************************************)
(* to_date_obj                                                             *)
(***************************************************************************)
IsLeap(y) == (y % 4 = 0) /\ ((y % 100 # 0) \/ (y % 400 = 0))

DaysInMonth(y, m) ==
  IF m = 2 THEN (IF IsLeap(y) THEN 29 ELSE 28)
  ELSE IF m \in {4, 6, 9, 11} THEN 30 ELSE 31

RECURSIVE DaysBeforeMonth(_, _)
DaysBeforeMonth(y, m) ==
  IF m = 1 THEN 0 ELSE DaysBeforeMonth(y, m - 1) + DaysInMonth(y, m - 1)

DaysBeforeYear(y) ==
  (y - 1) * 365 + ((y - 1) \div 4) - ((y - 1) \div 100) + ((y - 1) \div 400)

\* datetime.date(y, m, d).toordinal()
Ordinal(y, m, d) == DaysBeforeYear(y) + DaysBeforeMonth(y, m) + d

Weekdays == {"mon", "tue", "wed", "thu", "fri", "sat", "sun"}

MonthAbbr == <<"jan", "feb", "mar", "apr", "may", "jun",
               "jul", "aug", "sep", "oct", "nov", "dec">>

MonthFull == <<"january", "february", "march", "april", "may", "june",
               "july", "august", "september", "october", "november",
               "december">>

\* The whitespace-separated words of a text, each a sequence of atoms.
RECURSIVE WordLen(_)
WordLen(t) ==
  IF t = <<>> \/ IsSpace(Head(t)) THEN 0 ELSE 1 + WordLen(Tail(t))

RECURSIVE Words(_)
Words(t) ==
  IF t = <<>> THEN <<>>
  ELSE IF IsSpace(Head(t)) THEN Words(Tail(t))
  ELSE LET n == WordLen(t) IN
       <<SubSeq(t, 1, n)>> \o Words(SubSeq(t, n + 1, Len(t)))

\* re.sub(r"^(Mon|Tue|Wed|Thu|Fri|Sat|Sun)\s+", "", t, flags=re.I)
StripWeekday(t) ==
  IF Len(t) >= 2 /\ Lower(t[1]) \in Weekdays /\ IsSpace(t[2])
    THEN LStrip(Tail(t))
    ELSE t

\* datetime.strptime(clean, "%d <month> %Y").date() with the month names
\* of `months`; Null where strptime raises ValueError.
StrpDate(clean, months) ==
  LET w == Words(clean) IN
  IF Len(w) # 3 THEN Null
  ELSE LET dw == w[1]
           mw == w[2]
           yw == w[3]
           ms == IF Len(mw) = 1
                   THEN {m \in 1..12 : months[m] = Lower(mw[1])}
                   ELSE {}
       IN
       IF ~(AllDigits(dw) /\ Len(dw) \in {1, 2} /\ DigitsValue(dw) \in 1..31)
         THEN Null
       ELSE IF ms = {} THEN Null
       ELSE IF ~(AllDigits(yw) /\ Len(yw) = 4 /\ DigitsValue(yw) >= 1)
         THEN Null
       ELSE LET m == CHOOSE x \in ms : TRUE
                y == DigitsValue(yw)
                d == DigitsValue(dw)
            IN IF d > DaysInMonth(y, m) THEN Null ELSE Ordinal(y, m, d)

to_date_obj(txt) ==
  IF txt = <<>> THEN Null
  ELSE LET clean == StripWeekday(Strip(txt))
           short == StrpDate(clean, MonthAbbr)
       IN IF short # Null THEN short ELSE StrpDate(clean, MonthFull)

(***************************************************************************)
(* norm_availability, extract_int_in_text, within_window                   *)
(***************************************************************************)
\* norm_availability without the lower().
norm_availability_CaseSensitive(s) ==
  LET t == Strip(s) IN
  IF Contains(t, <<"sold">>) THEN <<"Sold", " ", "Out">>
  ELSE IF Contains(t, <<"hurry">>) \/ Contains(t, <<"few">>)
    THEN <<"Few", " ", "left">>
  ELSE IF Contains(t, <<"1", "0", "+">>) \/ Contains(t, <<"avail">>)
    THEN <<"Available">>
  ELSE IF s # <<>> THEN Strip(s) ELSE <<"--">>

norm_availability(s) ==
  LET t == LowerText(Strip(s)) IN
  IF Contains(t, <<"sold">>) THEN <<"Sold", " ", "Out">>
  ELSE IF Contains(t, <<"hurry">>) \/ Contains(t, <<"few">>)
    THEN <<"Few", " ", "left">>
  ELSE IF Contains(t, <<"1", "0", "+">>) \/ Contains(t, <<"avail">>)
    THEN <<"Available">>
  ELSE IF s # <<>> THEN Strip(s) ELSE <<"--">>   \* the dash of line 58

\* re.search(r"\d+", s): the first maximal run of digits.
RECURSIVE DigitRunLen(_)
DigitRunLen(t) ==
  IF t = <<>> \/ Head(t) \notin Digits THEN 0 ELSE 1 + DigitRunLen(Tail(t))

RECURSIVE extract_int_in_text(_)
extract_int_in_text(s) ==
  IF s = <<>> THEN Null
  ELSE IF Head(s) \in Digits THEN DigitsValue(SubSeq(s, 1, DigitRunLen(s)))
  ELSE extract_int_in_text(Tail(s))

\* within_window without the check of the end of the window.
within_window_NoEnd(d, start, end) ==
  IF d = Null THEN FALSE
  ELSE IF start # Null /\ d < start THEN FALSE
  ELSE TRUE

within_window(d, start, end) ==
  IF d = Null THEN FALSE
  ELSE IF start # Null /\ d < start THEN FALSE
  ELSE IF end # Null /\ d > end THEN FALSE
  ELSE TRUE

(***************************************************************************)
(* The page: the top-level rows of the results table.  A row holds its own *)
(* cells, or (table = TRUE) one cell that wraps a nested table with header *)
(* cells `head` and body rows `body`.                                      *)
(***************************************************************************)
PlainRow(tds) == [tds |-> tds, table |-> FALSE, head |-> <<>>, body |-> <<>>]

DetailRow(head, body) ==
  [tds |-> <<>>, table |-> TRUE, head |-> head, body |-> body]

RECURSIVE Join(_, _)
Join(texts, sep) ==
  IF texts = <<>> THEN <<>>
  ELSE IF Len(texts) = 1 THEN texts[1]
  ELSE texts[1] \o <<sep>> \o Join(Tail(texts), sep)

RECURSIVE Flatten(_)
Flatten(seqs) ==
  IF seqs = <<>> THEN <<>> ELSE Head(seqs) \o Flatten(Tail(seqs))

\* innerText of the nested table: cells joined by tabs, rows by newlines.
TableText(r) ==
  Join(<<Join(r.head, "\t")>> \o
       [k \in 1..Len(r.body) |-> Join(r.body[k], "\t")], "\n")

\* tr.inner_text()
InnerText(r) == IF r.table THEN TableText(r) ELSE Join(r.tds, "\t")

\* tr.locator("td"): every td below the row, nested ones included, each
\* with its inner text.
Cells(r) ==
  IF r.table THEN <<TableText(r)>> \o Flatten(r.body) ELSE r.tds

\* page.locator("#availability-results table tbody tr"): the descendant
\* selector also matches the body rows of a nested table, in document order.
RECURSIVE RowsOf(_)
RowsOf(d) ==
  IF d = <<>> THEN <<>>
  ELSE LET r == Head(d) IN
       <<r>> \o [k \in 1..Len(r.body) |-> PlainRow(r.body[k])]
           \o RowsOf(Tail(d))

\* nxt.locator("table:has-text('Cabin Type')").count() > 0; has-text
\* matches case-insensitively.
HasCabinTable(r) ==
  r.table /\ Contains(LowerText(TableText(r)), <<"cabin", " ", "type">>)

(***************************************************************************)
(* extract_from_results                                                    *)
(***************************************************************************)
\* The cabins of the nested table of row nxt: one per body row of >= 3 cells.
CabinOf(tds) ==
  [type |-> Strip(tds[1]),
   available |-> extract_int_in_text(tds[2]),
   priceAUD |-> parse_money_to_int(tds[3])]

\* CabinsOf that leaves out the rows without a cabin type.
CabinsOf_SkipNoType(nxt) ==
  LET enough(tds) == Len(tds) >= 3 /\ Strip(tds[1]) # <<>>
      kept == SelectSeq(nxt.body, enough)
  IN [k \in 1..Len(kept) |-> CabinOf(kept[k])]

CabinsOf(nxt) ==
  LET enough(tds) == Len(tds) >= 3
      kept == SelectSeq(nxt.body, enough)
  IN [k \in 1..Len(kept) |-> CabinOf(kept[k])]

\* SumAvailable without the `or 0`: a null count is added as it is.
RECURSIVE SumAvailable_Raw(_)
SumAvailable_Raw(cabins) ==
  IF cabins = <<>> THEN 0
  ELSE Head(cabins).available + SumAvailable_Raw(Tail(cabins))

RECURSIVE SumAvailable(_)
SumAvailable(cabins) ==
  IF cabins = <<>> THEN 0
  ELSE (IF Head(cabins).available = Null THEN 0 ELSE Head(cabins).available)
       + SumAvailable(Tail(cabins))

\* Whether the row after index k (0-based) is taken as a cabin detail row.
IsDetailText(nxt) ==
  LET nxt_text == LowerText(InnerText(nxt)) IN
  Contains(nxt_text, <<"cabin", " ", "type">>)
    \/ Contains(nxt_text, <<"berths", " ", "left">>)

\* NextIndex without line 254: the detail row is not skipped.
NextIndex_NoSkip(k, isDetail) == k + 1

\* The index after the iteration at k: line 254 skips the detail row, line
\* 266 moves on.
NextIndex(k, isDetail) == IF isDetail THEN k + 2 ELSE k + 1

\* One iteration of the while loop at index k (0-based) over rws:
\* the trips it appends, the index after it, and the row it consumed as a
\* detail row (0-based, or Null).
ScanRow(rws, k, start, end) ==
  LET n == Len(rws)
      cells == Cells(rws[k + 1])
  IN
  IF Len(cells) < 5
    THEN [emit |-> <<>>, next |-> NextIndex(k, FALSE), detail |-> Null]
  ELSE
    LET title == Strip(cells[1])
        dep == Strip(cells[2])
        ret == Strip(cells[3])
        price == Strip(cells[4])
        av == Strip(cells[5])
        d == to_date_obj(dep)
    IN
    IF ~within_window(d, start, end)
      THEN [emit |-> <<>>, next |-> NextIndex(k, FALSE), detail |-> Null]
    ELSE
      LET hasNext == k + 1 < n
          isDetail == hasNext /\ IsDetailText(rws[k + 2])
          hasTable == isDetail /\ HasCabinTable(rws[k + 2])
          cabins == IF hasTable THEN CabinsOf(rws[k + 2]) ELSE <<>>
          cabins_left == IF hasTable /\ cabins # <<>>
                           THEN SumAvailable(cabins) ELSE Null
          trip == [title |-> title,
                   dateText |-> dep,
                   dateReturn |-> ret,
                   priceFromAUD |-> parse_money_to_int(price),
                   availability |-> norm_availability(av),
                   cabinsLeft |-> cabins_left,
                   link |-> "SOURCE_URL",
                   cabins |-> cabins,
                   row |-> k]   \* history: the row the trip was read from
      IN [emit |-> <<trip>>,
          next |-> NextIndex(k, isDetail),
          detail |-> IF isDetail THEN k + 1 ELSE Null]

\* The sort key of line 268: the departure date, or 1900-01-01 without one.
SortKey(t) ==
  LET d == to_date_obj(t.dateText) IN
  IF d = Null THEN Ordinal(1900, 1, 1) ELSE d

\* list.sort(key=...): stable, ascending.
RECURSIVE InsertByKey(_, _)
InsertByKey(t, sorted) ==
  IF sorted = <<>> THEN <<t>>
  ELSE IF SortKey(t) < SortKey(Head(sorted)) THEN <<t>> \o sorted
  ELSE <<Head(sorted)>> \o InsertByKey(t, Tail(sorted))

\* SortTrips that leaves the list in scan order.
SortTrips_ScanOrder(ts) == ts

RECURSIVE SortTrips(_)
SortTrips(ts) ==
  IF ts = <<>> THEN <<>>
  ELSE InsertByKey(ts[Len(ts)], SortTrips(SubSeq(ts, 1, Len(ts) - 1)))

(***************************************************************************)
(* The pages and windows the scan is checked on                            *)
(***************************************************************************)
MaxRows == 3

TxtCoral == <<"Coral">>
TxtCod == <<"Cod">>
Dep12Sep == <<"Fri", " ", "1", "2", " ", "Sep", " ", "2", "0", "2", "5">>
Dep19Sep == <<"1", "9", " ", "September", " ", "2", "0", "2", "5">>
Dep11Sep == <<"1", "1", " ", "SEP", " ", "2", "0", "2", "5">>
Dep3Oct == <<"3", " ", "Oct", " ", "2", "0", "2", "5">>
DepLong ==
  <<"Friday", " ", "1", "2", " ", "September", " ", "2", "0", "2", "5">>
Ret26Sep == <<"2", "6", " ", "Sep", " ", "2", "0", "2", "5">>
Price2385 == <<"$", "2", ",", "3", "8", "5">>
Price6999 == <<"AUD", " ", "6", ",", "9", "9", "9", ".", "0", "0">>
Price5367 == <<"$", "5", ",", "3", "6", "7">>
PriceSoldOut == <<"Sold", " ", "out">>
Av6 == <<"6", " ", "available">>
AvHurry == <<"Hurry">>
AvSoldOut == <<"SOLD", " ", "OUT">>
AvBerths == <<"2", " ", "berths", " ", "left">>

TripA == PlainRow(<<TxtCoral, Dep12Sep, Ret26Sep, Price2385, Av6>>)
\* The same expedition and dates as TripA, without a price.
TripA2 == PlainRow(<<TxtCoral, Dep12Sep, Ret26Sep, <<>>, AvHurry>>)
TripB == PlainRow(<<TxtCod, Dep19Sep, Ret26Sep, Price6999, <<"1", "0", "+">>>>)
TripSold == PlainRow(<<TxtCod, Dep12Sep, Ret26Sep, Price5367, AvSoldOut>>)
TripOut == PlainRow(<<TxtCoral, Dep3Oct, <<>>, Price2385, Av6>>)
TripBad == PlainRow(<<TxtCoral, DepLong, Ret26Sep, Price2385, Av6>>)
TripEarly == PlainRow(<<TxtCod, Dep11Sep, Ret26Sep, Price5367, Av6>>)
\* A row that says "Sold out" in its price cell and "berths left" in its
\* availability cell.
TripBerths == PlainRow(<<TxtCod, Dep19Sep, Ret26Sep, PriceSoldOut, AvBerths>>)

HeadCabins ==
  <<<<"Cabin", " ", "Type">>, <<"Berths", " ", "Left">>, <<"Price">>>>

CabinPremium ==
  <<<<"Premium">>, <<"2", " ", "berths", " ", "left">>,
    <<"$", "6", ",", "9", "9", "9">>>>
CabinNoType == <<<<" ">>, <<"1", " ", "left">>, Price2385>>
CabinTwoCells == <<<<"Standard">>, <<"Sold", " ", "out">>>>
CabinNoCount == <<<<"Budget">>, <<"available">>, <<>>>>

DetailFull == DetailRow(HeadCabins, <<CabinPremium, CabinNoType, CabinTwoCells>>)
\* A nested table that never says "Cabin Type".
DetailNoHead ==
  DetailRow(<<<<"Cabin">>, <<"Berths", " ", "left">>>>, <<CabinPremium>>)
DetailNoCount == DetailRow(<<<<"CABIN", " ", "TYPE">>>>, <<CabinNoCount>>)
DetailTwoCells == DetailRow(HeadCabins, <<CabinTwoCells>>)

RowKinds ==
  {TripA, TripA2, TripB, TripSold, TripOut, TripBad, TripEarly, TripBerths,
   DetailFull, DetailNoHead, DetailNoCount, DetailTwoCells}

Doms == UNION {[1..n -> RowKinds] : n \in 0..MaxRows}

\* <<start, end>>: TripA and TripSold depart on the first day of the window,
\* TripB and TripBerths on the last, TripEarly the day before it and TripOut
\* after it.
Windows == {<<Ordinal(2025, 9, 12), Ordinal(2025, 9, 19)>>}

NoArgs == [window |-> FALSE, start |-> <<>>, end |-> <<>>]
NoFile == [written |-> FALSE, trips |-> <<>>]

(***************************************************************************)
(* extract_from_results, one loop iteration at a time                      *)
(***************************************************************************)
rows == RowsOf(dom)
rcount == Len(rows)

ScanInit ==
  /\ pc = "scan"
  /\ dom \in Doms
  /\ \E w \in Windows : start_date = w[1] /\ end_date = w[2]
  /\ i = 0
  /\ trips = <<>>
  /\ visited = {}
  /\ skipped = {}
  /\ args = NoArgs
  /\ today = Null
  /\ outfile = NoFile
  /\ text = <<>>
  /\ value = Null

\* ScanStep that drops a trip whose title and dates are already in trips.
ScanStep_Dedup ==
  /\ pc = "scan"
  /\ i < rcount
  /\ LET r == ScanRow(rows, i, start_date, end_date)
         known(t) == \E j \in 1..Len(trips) :
                       /\ trips[j].title = t.title
                       /\ trips[j].dateText = t.dateText
                       /\ trips[j].dateReturn = t.dateReturn
     IN
     /\ trips' = IF r.emit # <<>> /\ known(r.emit[1])
                   THEN trips ELSE trips \o r.emit
     /\ i' = r.next
     /\ visited' = visited \cup {i}
     /\ skipped' = IF r.detail = Null THEN skipped ELSE skipped \cup {r.detail}
  /\ UNCHANGED <<pc, dom, start_date, end_date, args, today, outfile, text, value>>

\* Lines 222-266: the body of `while i < rcount`.
ScanStep ==
  /\ pc = "scan"
  /\ i < rcount
  /\ LET r == ScanRow(rows, i, start_date, end_date) IN
     /\ trips' = trips \o r.emit
     /\ i' = r.next
     /\ visited' = visited \cup {i}
     /\ skipped' = IF r.detail = Null THEN skipped ELSE skipped \cup {r.detail}
  /\ UNCHANGED <<pc, dom, start_date, end_date, args, today, outfile, text, value>>

\* Lines 268-269: the loop is over; sort and return.
ScanReturn ==
  /\ pc = "scan"
  /\ i >= rcount
  /\ trips' = SortTrips(trips)
  /\ pc' = "done"
  /\ UNCHANGED <<dom, start_date, end_date, i, visited, skipped,
                 args, today, outfile, text, value>>

Next == ScanStep \/ ScanReturn

Spec == ScanInit /\ [][Next]_vars

(***************************************************************************)
(* Properties of extract_from_results                                      *)
(***************************************************************************)
\* The departure date of row k (0-based) as the scan reads it: the second
\* cell, parsed; Null when the row has no second cell or it does not parse.
DepartureOf(k) ==
  LET c == Cells(rows[k + 1]) IN
  IF Len(c) < 2 THEN Null ELSE to_date_obj(Strip(c[2]))

InWindow(k) ==
  DepartureOf(k) # Null
    /\ start_date <= DepartureOf(k) /\ DepartureOf(k) <= end_date

\* A row the scan may emit: at least 5 cells and a departure in the window.
Candidate(k) == Len(Cells(rows[k + 1])) >= 5 /\ InWindow(k)

TripsOfRow(k) == {j \in 1..Len(trips) : trips[j].row = k}

\* C1: a trip is emitted for a row only if the row's departure text parses
\* to a date d with start <= d <= end; a row whose departure is unparseable
\* or outside the window has no trip in the output.
C1_OnlyInWindow ==
  \A k \in 0..(rcount - 1) : TripsOfRow(k) # {} => InWindow(k)

\* C1 witness: the scan is over, it emitted the trips that depart on the
\* first and on the last day of the window, and it passed over a row with
\* an unparseable departure and a row that departs outside the window.
C1_Witness ==
  /\ pc = "done"
  /\ \E k \in visited : DepartureOf(k) = start_date /\ TripsOfRow(k) # {}
  /\ \E k \in visited :
       /\ Len(Cells(rows[k + 1])) >= 5
       /\ DepartureOf(k) # Null
       /\ ~InWindow(k)
  /\ \E k \in visited :
       Len(Cells(rows[k + 1])) >= 5 /\ DepartureOf(k) = Null

\* `sold out` in any letter case in the text of row k.
SaysSoldOut(k) ==
  Contains(LowerText(InnerText(rows[k + 1])), <<"sold", " ", "out">>)

\* C2 as claimed: no trip is emitted for a row whose text contains
\* "sold out" in any letter case.
C2_SoldOutExcluded ==
  pc = "done" => \A k \in 0..(rcount - 1) : SaysSoldOut(k) => TripsOfRow(k) = {}

\* C2 as amended: a "sold out" row is not excluded; when it is evaluated as
\* a candidate (5 cells or more, departure in the window) it is emitted,
\* and its availability reads "Sold Out" when its availability cell holds
\* "sold" in any letter case.
C2_SoldOutLabelled ==
  pc = "done" =>
    \A k \in visited :
      (SaysSoldOut(k) /\ Candidate(k)) =>
        /\ TripsOfRow(k) # {}
        /\ \A j \in TripsOfRow(k) :
             Contains(LowerText(Cells(rows[k + 1])[5]), <<"sold">>) =>
               trips[j].availability = <<"Sold", " ", "Out">>

\* C2 witness: a sold-out row was emitted together with the cabins of its
\* detail row.
C2_Witness ==
  /\ pc = "done"
  /\ \E j \in 1..Len(trips) :
       /\ SaysSoldOut(trips[j].row)
       /\ rows[trips[j].row + 1] = TripSold
       /\ trips[j].availability = <<"Sold", " ", "Out">>
       /\ trips[j].cabins # <<>>

KeyOf(t) == <<t.title, to_date_obj(t.dateText), to_date_obj(t.dateReturn)>>

\* C3 as claimed: no two records of the output share the key
\* (expedition, departs, returns).
C3_UniqueKeys ==
  pc = "done" =>
    \A j, k \in 1..Len(trips) : KeyOf(trips[j]) = KeyOf(trips[k]) => j = k

\* C3 as amended: the output is not deduplicated; every row evaluated as a
\* candidate yields exactly one record of its own, whatever its key.
C3_OneRecordPerCandidate ==
  pc = "done" =>
    /\ \A k \in visited : Candidate(k) => Cardinality(TripsOfRow(k)) = 1
    /\ Len(trips) = Cardinality({k \in visited : Candidate(k)})

\* C3 witness: two records with the same key, one with cabins and a price,
\* the other with neither.
C3_Witness ==
  /\ pc = "done"
  /\ \E j, k \in 1..Len(trips) :
       /\ j # k
       /\ KeyOf(trips[j]) = KeyOf(trips[k])
       /\ trips[j].cabins # <<>> /\ trips[j].priceFromAUD # Null
       /\ trips[k].cabins = <<>> /\ trips[k].priceFromAUD = Null

\* C5: the returned list is non-decreasing by departure date, and a record
\* without a resolvable departure date comes after every record with one.
C5_Sorted ==
  pc = "done" =>
    \A j, k \in 1..Len(trips) :
      j < k =>
        LET dj == to_date_obj(trips[j].dateText)
            dk == to_date_obj(trips[k].dateText)
        IN /\ (dj = Null => dk = Null)
           /\ (dj # Null /\ dk # Null => dj <= dk)

\* C5 witness: the list was returned with a later row ahead of an earlier
\* row, the two departing on different days.
C5_Witness ==
  /\ pc = "done"
  /\ \E j, k \in 1..Len(trips) :
       /\ j < k
       /\ trips[j].row > trips[k].row
       /\ to_date_obj(trips[j].dateText) < to_date_obj(trips[k].dateText)

\* The row after the row of trip t holds a nested table headed "Cabin Type".
HasCabinRow(t) ==
  /\ t.row + 1 < rcount
  /\ rows[t.row + 2].table
  /\ Contains(LowerText(Join(rows[t.row + 2].head, "\t")), <<"cabin", " ", "type">>)

\* The cabins of nested body rows of at least n cells, in document order;
\* rows with an empty cabin type are left out when skipEmpty.
RECURSIVE CabinsExpected(_, _, _)
CabinsExpected(body, n, skipEmpty) ==
  IF body = <<>> THEN <<>>
  ELSE LET tds == Head(body)
           rest == CabinsExpected(Tail(body), n, skipEmpty)
       IN IF Len(tds) < n \/ (skipEmpty /\ Strip(tds[1]) = <<>>) THEN rest
          ELSE <<[type |-> Strip(tds[1]),
                  available |-> extract_int_in_text(tds[2]),
                  priceAUD |-> IF Len(tds) >= 3
                                 THEN parse_money_to_int(tds[3]) ELSE Null]>>
               \o rest

PremiumCabin == [type |-> <<"Premium">>, available |-> 2, priceAUD |-> 6999]

\* C7 as claimed: the cabins of such a trip are one per nested body row of
\* at least 2 cells with a non-empty first cell.
C7_CabinsOfTwoCells ==
  pc = "done" =>
    \A j \in 1..Len(trips) :
      HasCabinRow(trips[j]) =>
        trips[j].cabins = CabinsExpected(rows[trips[j].row + 2].body, 2, TRUE)

\* C7 as amended: the cabins of such a trip are, in document order, one per
\* nested body row of at least 3 cells, rows with an empty cabin type
\* included; "Premium | 2 berths left | $6,999" yields Premium, 2, 6999.
C7_CabinsOfThreeCells ==
  pc = "done" =>
    \A j \in 1..Len(trips) :
      HasCabinRow(trips[j]) =>
        LET body == rows[trips[j].row + 2].body IN
        /\ trips[j].cabins = CabinsExpected(body, 3, FALSE)
        /\ (body # <<>> /\ body[1] = CabinPremium
              => trips[j].cabins[1] = PremiumCabin)

\* C7 witness: a trip took its cabins from a nested table that also holds a
\* row without a cabin type and a row of 2 cells.
C7_Witness ==
  /\ pc = "done"
  /\ \E j \in 1..Len(trips) :
       /\ HasCabinRow(trips[j])
       /\ rows[trips[j].row + 2] = DetailFull
       /\ Len(trips[j].cabins) = 2
       /\ trips[j].cabins[1] = PremiumCabin
       /\ trips[j].cabins[2].type = <<>>

\* C9: every iteration evaluates a row not evaluated before and moves the
\* index forward, never past rcount (so the scan ends after at most rcount
\* iterations); a row consumed as a cabin-detail row is never evaluated as a
\* trip candidate; and the cabins of a trip come from the row right after
\* the trip's row, which is the row consumed.
C9_ScanRoles ==
  /\ [][ScanStep => (i \notin visited /\ i' > i /\ i' <= rcount)]_vars
  /\ [](pc = "scan" => i <= rcount)
  /\ [](visited \cap skipped = {})
  /\ [](\A j \in 1..Len(trips) :
          trips[j].cabins # <<>> =>
            /\ (trips[j].row + 1) \in skipped
            /\ \A c \in 1..Len(trips[j].cabins) :
                 \E b \in 1..Len(rows[trips[j].row + 2].body) :
                   LET tds == rows[trips[j].row + 2].body[b] IN
                   Len(tds) >= 1 /\ trips[j].cabins[c].type = Strip(tds[1]))

\* C9 witness: the scan returned after it consumed a detail row, took
\* cabins from it, and evaluated the rows after it.
C9_Witness ==
  /\ pc = "done"
  /\ \E j \in 1..Len(trips) :
       /\ trips[j].cabins # <<>>
       /\ (trips[j].row + 1) \in skipped
       /\ \E k \in visited : k > trips[j].row + 1

\* sum((c["available"] or 0) for c in cabins), written out for the claim.
RECURSIVE CountBerths(_)
CountBerths(cabins) ==
  IF cabins = <<>> THEN 0
  ELSE LET a == cabins[Len(cabins)].available IN
       CountBerths(SubSeq(cabins, 1, Len(cabins) - 1))
         + (IF a = Null THEN 0 ELSE a)

\* C10: cabinsLeft is null exactly when the cabins list is empty, and
\* otherwise the sum of the cabins' counts, a null count adding 0.
C10_CabinsLeft ==
  \A j \in 1..Len(trips) :
    /\ (trips[j].cabinsLeft = Null) <=> (trips[j].cabins = <<>>)
    /\ trips[j].cabins # <<>> =>
         trips[j].cabinsLeft = CountBerths(trips[j].cabins)

\* C10 witness: one trip has cabins whose counts are all null and
\* cabinsLeft 0, another has no cabins and cabinsLeft null.
C10_Witness ==
  /\ pc = "done"
  /\ \E j \in 1..Len(trips) :
       /\ trips[j].cabins # <<>>
       /\ \A c \in 1..Len(trips[j].cabins) : trips[j].cabins[c].available = Null
       /\ trips[j].cabinsLeft = 0
  /\ \E j \in 1..Len(trips) :
       trips[j].cabins = <<>> /\ trips[j].cabinsLeft = Null

(***************************************************************************)
(* parse_money_to_int on its own                                           *)
(***************************************************************************)
MaxLen == 4

MoneyAtoms == {"1", "5", ".", ",", " ", "$"}

MoneyTexts ==
  UNION {[1..n -> MoneyAtoms] : n \in 0..MaxLen}
    \cup {Price2385, Price6999, <<"AUD">>}

MoneyInit ==
  /\ pc = "money"
  /\ text \in MoneyTexts
  /\ value = Null
  /\ dom = <<>>
  /\ start_date = Null
  /\ end_date = Null
  /\ i = 0
  /\ trips = <<>>
  /\ visited = {}
  /\ skipped = {}
  /\ args = NoArgs
  /\ today = Null
  /\ outfile = NoFile

\* A call of parse_money_to_int(text).
ParseMoney ==
  /\ pc = "money"
  /\ value' = parse_money_to_int(text)
  /\ pc' = "parsed"
  /\ UNCHANGED <<dom, start_date, end_date, i, trips, visited, skipped,
                 args, today, outfile, text>>

MoneyNext == ParseMoney

MoneySpec == MoneyInit /\ [][MoneyNext]_vars

\* The first decimal-or-integer numeric token of a text without thousands
\* separators, read as generously as float() reads it (\d+(\.\d*)? or
\* \.\d+), as <<whole digits, fraction digits>>; <<>> when the text has no
\* digit.
RECURSIVE FirstToken(_)
FirstToken(t) ==
  IF t = <<>> THEN <<>>
  ELSE IF Head(t) = "." /\ Len(t) >= 2 /\ t[2] \in Digits
    THEN <<<<>>, SubSeq(t, 2, 1 + DigitRunLen(Tail(t)))>>
  ELSE IF Head(t) \notin Digits THEN FirstToken(Tail(t))
  ELSE LET n == DigitRunLen(t)
           rest == SubSeq(t, n + 1, Len(t))
           m == IF rest # <<>> /\ rest[1] = "."
                  THEN DigitRunLen(Tail(rest)) ELSE 0
       IN <<SubSeq(t, 1, n), SubSeq(rest, 2, m + 1)>>

FirstTokenRounded(t) ==
  LET notComma(a) == a # ","
      tok == FirstToken(SelectSeq(t, notComma))
  IN IF tok = <<>> THEN Null
     ELSE RoundHalfEven(DigitsValue(tok[1]), DigitsValue(tok[2]), Len(tok[2]))

\* C6: the result is the first numeric token of the text, thousands
\* separators removed, rounded to a whole unit; null for a text without
\* digits; "$2,385" gives 2385 and "AUD 6,999.00" gives 6999.
C6_FirstToken ==
  pc = "parsed" =>
    /\ value = FirstTokenRounded(text)
    /\ (text = Price2385 => value = 2385)
    /\ (text = Price6999 => value = 6999)

(***************************************************************************)
(* main and run_scrape                                                     *)
(***************************************************************************)
\* timedelta(days=28) and timedelta(days=182) of lines 335-336.
WindowStartDays == 28
WindowEndDays == 182

\* The parts of a text between "-" atoms.
RECURSIVE DashLen(_)
DashLen(t) ==
  IF t = <<>> \/ Head(t) = "-" THEN 0 ELSE 1 + DashLen(Tail(t))

RECURSIVE DashParts(_)
DashParts(t) ==
  LET n == DashLen(t) IN
  IF n = Len(t) THEN <<t>>
  ELSE <<SubSeq(t, 1, n)>> \o DashParts(SubSeq(t, n + 2, Len(t)))

\* datetime.strptime(t, "%Y-%m-%d").date(); Null where it raises ValueError.
StrpIso(t) ==
  LET p == DashParts(t) IN
  IF Len(p) # 3 THEN Null
  ELSE LET yw == p[1]
           mw == p[2]
           dw == p[3]
       IN
       IF ~(AllDigits(yw) /\ Len(yw) = 4 /\ DigitsValue(yw) >= 1) THEN Null
       ELSE IF ~(AllDigits(mw) /\ Len(mw) \in {1, 2} /\ DigitsValue(mw) \in 1..12)
         THEN Null
       ELSE IF ~(AllDigits(dw) /\ Len(dw) \in {1, 2} /\ DigitsValue(dw) \in 1..31)
         THEN Null
       ELSE IF DigitsValue(dw) > DaysInMonth(DigitsValue(yw), DigitsValue(mw))
         THEN Null
       ELSE Ordinal(DigitsValue(yw), DigitsValue(mw), DigitsValue(dw))

\* extract_from_results as one call: the loop from index k, then the sort.
RECURSIVE ScanFrom(_, _, _, _)
ScanFrom(rws, k, start, end) ==
  IF k >= Len(rws) THEN <<>>
  ELSE LET r == ScanRow(rws, k, start, end) IN
       r.emit \o ScanFrom(rws, r.next, start, end)

extract_from_results(rws, start, end) == SortTrips(ScanFrom(rws, 0, start, end))

Iso12Sep == <<"2", "0", "2", "5", "-", "0", "9", "-", "1", "2">>
Iso19Sep == <<"2", "0", "2", "5", "-", "0", "9", "-", "1", "9">>
Iso30Feb == <<"2", "0", "2", "5", "-", "0", "2", "-", "3", "0">>

\* The values of --start and --end; <<>> when the flag is not given.
ArgTexts == {<<>>, Iso12Sep, Iso19Sep, Iso30Feb}

Todays == {Ordinal(2025, 8, 1)}

\* The pages a search that succeeded leaves behind: at least one row.
CliDoms ==
  {<<TripA>>, <<TripOut>>, <<TripB, TripA, DetailFull>>, <<TripSold, TripBad>>}

CliInit ==
  /\ pc = "main"
  /\ args \in [window : BOOLEAN, start : ArgTexts, end : ArgTexts]
  /\ today \in Todays
  /\ outfile = NoFile
  /\ dom = <<>>
  /\ start_date = Null
  /\ end_date = Null
  /\ i = 0
  /\ trips = <<>>
  /\ visited = {}
  /\ skipped = {}
  /\ text = <<>>
  /\ value = Null

\* Lines 328-343: the window of the run, or exit status 1 on a bad date.
MainWindow ==
  /\ pc = "main"
  /\ LET window == args.window \/ ~(args.start # <<>> /\ args.end # <<>>) IN
     /\ args' = [args EXCEPT !.window = window]
     /\ IF window
          THEN /\ start_date' = today + WindowStartDays
               /\ end_date' = today + WindowEndDays
               /\ pc' = "search"
          ELSE IF StrpIso(args.start) = Null \/ StrpIso(args.end) = Null
            THEN /\ pc' = "exit1"
                 /\ UNCHANGED <<start_date, end_date>>
            ELSE /\ start_date' = StrpIso(args.start)
                 /\ end_date' = StrpIso(args.end)
                 /\ pc' = "search"
  /\ UNCHANGED <<dom, i, trips, visited, skipped, today, outfile, text, value>>

\* Line 293: perform_search returns; the results table has at least one row.
SearchReturns ==
  /\ pc = "search"
  /\ dom' \in CliDoms
  /\ pc' = "extract"
  /\ UNCHANGED <<start_date, end_date, i, trips, visited, skipped,
                 args, today, outfile, text, value>>

\* SearchRaises with the exception swallowed: the run goes on to write a
\* document without trips.
SearchRaises_Swallowed ==
  /\ pc = "search"
  /\ trips' = <<>>
  /\ pc' = "write"
  /\ UNCHANGED <<dom, start_date, end_date, i, visited, skipped,
                 args, today, outfile, text, value>>

\* Lines 292-307, 345: perform_search raises (a navigation error, a timeout,
\* no row within 20 s); run_scrape re-raises and main does not catch.
SearchRaises ==
  /\ pc = "search"
  /\ pc' = "raised"
  /\ UNCHANGED <<dom, start_date, end_date, i, trips, visited, skipped,
                 args, today, outfile, text, value>>

\* Lines 294, 309-313: extract_from_results returns the trips.
ExtractReturns ==
  /\ pc = "extract"
  /\ trips' = extract_from_results(RowsOf(dom), start_date, end_date)
  /\ pc' = "write"
  /\ UNCHANGED <<dom, start_date, end_date, i, visited, skipped,
                 args, today, outfile, text, value>>

\* Lines 294-307, 345: a page call inside extract_from_results raises.
ExtractRaises ==
  /\ pc = "extract"
  /\ pc' = "raised"
  /\ UNCHANGED <<dom, start_date, end_date, i, trips, visited, skipped,
                 args, today, outfile, text, value>>

\* Lines 347-350: the document is written to args.out.
WriteDocument ==
  /\ pc = "write"
  /\ outfile' = [written |-> TRUE, trips |-> trips]
  /\ pc' = "exit0"
  /\ UNCHANGED <<dom, start_date, end_date, i, trips, visited, skipped,
                 args, today, text, value>>

CliNext ==
  \/ MainWindow
  \/ SearchReturns
  \/ SearchRaises
  \/ ExtractReturns
  \/ ExtractRaises
  \/ WriteDocument

CliSpec == CliInit /\ [][CliNext]_vars

\* C4 as claimed: a run whose search or extraction failed still ends with
\* a document at the output path whose trips field is the empty list.
C4_FailureStillWrites ==
  pc = "raised" => (outfile.written /\ outfile.trips = <<>>)

\* C4 as amended: a failure of the search or of the extraction escapes
\* main and no document is written; a document is written only by a run
\* whose search found rows and whose extraction returned, and its trips
\* field is what the extraction returned (the empty list when no row of the
\* page is emitted).
C4_WritesOnlyOnSuccess ==
  /\ pc = "raised" => ~outfile.written
  /\ outfile.written =>
       /\ pc = "exit0"
       /\ dom # <<>>
       /\ outfile.trips = trips
       /\ (outfile.trips = <<>>) <=>
            (\A k \in 0..(Len(RowsOf(dom)) - 1) :
               ~(Len(Cells(RowsOf(dom)[k + 1])) >= 5
                   /\ within_window(to_date_obj(Strip(Cells(RowsOf(dom)[k + 1])[2])),
                                    start_date, end_date)))

\* C4 witness: the run ended with the exception of a failed extraction and
\* without a document.
C4_Witness ==
  pc = "raised" /\ dom # <<>> /\ ~outfile.written

\* C8: whenever --start and --end are both given (and are dates), the
\* window of the run is exactly those two dates, with or without --window.
C8_ExplicitDatesWin ==
  (pc \notin {"main", "exit1"}
     /\ StrpIso(args.start) # Null /\ StrpIso(args.end) # Null) =>
    (start_date = StrpIso(args.start) /\ end_date = StrpIso(args.end))

====
